---- MODULE Spec2Model ----
(***************************************************************************)
(* Model of the emotion-analytics backend (src/app/main.py, models.py,     *)
(* db.py, schemas.py): the in-memory latest-frame relay (upload_frame,     *)
(* mjpeg_generator), the batch ingest into the person_emotions table       *)
(* (ingest_emotions_batch, one SQLModel session per request) and the       *)
(* dashboard summary (get_dashboard_summary).                              *)
(***************************************************************************)
EXTENDS Integers, Sequences, FiniteSets, TLC

(***************************************************************************)
(* Bounds of the model.                                                    *)
(***************************************************************************)
MaxTime == 2
NumSubs == 2
NumReqs == 2
MaxPeople == 2
MaxRecords == 2
MaxVal == 2

Devices == {"jetson_1", "jetson_2"}

\* Python's None: as a string where the other values are strings, and an
\* optional value of another type is a sequence of at most one element.
None == "None"
Absent == <<>>
Some(x) == <<x>>
NoTimestamp == -1

Min(a, b) == IF a < b THEN a ELSE b

(***************************************************************************)
(* The clock read by datetime.utcnow(), in whole seconds.                  *)
(***************************************************************************)
Times == 0..MaxTime

VARIABLES
    now,            \* datetime.utcnow()
    LATEST_FRAMES,  \* main.py:52, device_id -> Absent | Some([frame, timestamp])
    upload_status,  \* HTTP status of the last POST /api/stream/frame (0: none yet)
    sub_pc,         \* per viewer connection: position of its mjpeg_generator
    sub_device,     \* per viewer connection: the device_id of the path
    sub_out,        \* per viewer connection: what the last loop pass yielded
    last_pub,       \* history: device_id -> bytes of the last completed publish
    pub_count,      \* history: device_id -> completed publishes (saturates at 2)
    sub_seen,       \* history: pub_count of the device at the viewer's last pass
    sub_gone,       \* per viewer connection: the viewer has closed it
    sub_log         \* history: what the viewer's last two passes yielded

VARIABLES
    store,          \* the committed rows of person_emotions
    writer,         \* the request whose session holds SQLite's write lock (0: none)
    txn,            \* the table as the lock holder sees it: its flushed, uncommitted rows
    req_pc,         \* per request: idle, loop, commit, done, error
    req_batch,      \* per request: its EmotionsBatchIn
    req_timestamp,  \* per request: the resolved timestamp
    req_i,          \* per request: index of the next entry of batch.people
    updated_count,  \* per request: the counter of the loop, then of the response
    req_status,     \* per request: HTTP status of the response (0: none yet)
    sess,           \* per request: the Session's objects
    summary,        \* the last response of GET /api/dashboard/summary (Absent: none yet)
    req_start,      \* history: the clock when the request was called
    commit_order,   \* history: the requests in the order of their commits
    initial_store   \* history: the table when the process started

store_vars == <<store, writer, txn, req_pc, req_batch, req_timestamp, req_i,
                updated_count, req_status, sess, summary, req_start, commit_order,
                initial_store>>

relay_vars == <<LATEST_FRAMES, upload_status, sub_pc, sub_device, sub_out,
                last_pub, pub_count, sub_seen, sub_gone, sub_log>>

(***************************************************************************)
(* base64.b64decode(s) with the default validate=False, which is           *)
(* binascii.a2b_base64 in non-strict mode: characters outside the alphabet *)
(* are skipped, decoding stops at the padding that completes a quad, and   *)
(* the input is rejected only when it ends inside a quad.  The alphabet is *)
(* cut down to two symbols and a string is a sequence of characters.       *)
(***************************************************************************)
B64Chars == {"A", "Q", "=", "!"}

B64Value(ch) == CASE ch = "A" -> 0 [] ch = "Q" -> 16 [] OTHER -> 64

RECURSIVE a2b_base64(_, _, _, _, _, _)
a2b_base64(s, i, quad_pos, leftchar, pads, out) ==
    IF i > Len(s)
    THEN [ok |-> quad_pos = 0, bytes |-> out]
    ELSE IF s[i] = "="
    THEN IF quad_pos >= 2 /\ quad_pos + pads + 1 >= 4
         THEN [ok |-> TRUE, bytes |-> out]
         ELSE a2b_base64(s, i + 1, quad_pos, leftchar,
                         IF quad_pos >= 2 THEN pads + 1 ELSE pads, out)
    ELSE IF B64Value(s[i]) >= 64
    THEN a2b_base64(s, i + 1, quad_pos, leftchar, pads, out)
    ELSE LET v == B64Value(s[i]) IN
         CASE quad_pos = 0 -> a2b_base64(s, i + 1, 1, v, 0, out)
           [] quad_pos = 1 -> a2b_base64(s, i + 1, 2, v % 16, 0,
                                 Append(out, (leftchar * 4 + v \div 16) % 256))
           [] quad_pos = 2 -> a2b_base64(s, i + 1, 3, v % 4, 0,
                                 Append(out, (leftchar * 16 + v \div 4) % 256))
           [] OTHER        -> a2b_base64(s, i + 1, 0, 0, 0,
                                 Append(out, (leftchar * 64 + v) % 256))

b64decode(s) == a2b_base64(s, 1, 0, 0, 0, <<>>)

\* The frame_b64 strings tried: well-formed ones, malformed ones that the
\* decoder rejects and malformed ones that it accepts.
FramePayloads ==
    { <<>>,
      <<"A", "A", "=", "=">>, <<"A", "Q", "=", "=">>,
      <<"A">>, <<"A", "A", "=">>,
      <<"!", "!">>, <<"A", "A", "=", "!", "=">> }

\* The optional timestamp field of FrameUpload.
FrameTimestamps == {NoTimestamp, 0}

(***************************************************************************)
(* POST /api/stream/frame.  The handler is a coroutine without an await,   *)
(* so it runs as one step of the event loop.                               *)
(***************************************************************************)
\* A slot that keeps the frame it already holds.
StoreFrameKeepFirst(frames, device_id, frame_bytes, timestamp) ==
    IF frames[device_id] # Absent THEN frames
    ELSE [frames EXCEPT ![device_id] =
            Some([frame |-> frame_bytes, timestamp |-> timestamp])]

\* A register rebuilt around the new frame.
StoreFrameAlone(frames, device_id, frame_bytes, timestamp) ==
    [d \in DOMAIN frames |->
        IF d = device_id
        THEN Some([frame |-> frame_bytes, timestamp |-> timestamp])
        ELSE Absent]

StoreFrame(frames, device_id, frame_bytes, timestamp) ==
    [frames EXCEPT ![device_id] =
        Some([frame |-> frame_bytes, timestamp |-> timestamp])]

\* A publish that waits until no viewer of the device holds an unsent chunk.
upload_frame_waits(device_id, frame_b64, timestamp) ==
    LET decoded == b64decode(frame_b64) IN
    /\ \A s \in DOMAIN sub_pc : sub_device[s] = device_id => sub_pc[s] # "yield"
    /\ IF ~decoded.ok
       THEN /\ upload_status' = 400
            /\ UNCHANGED <<LATEST_FRAMES, last_pub, pub_count>>
       ELSE /\ LATEST_FRAMES' = StoreFrame(LATEST_FRAMES, device_id, decoded.bytes,
                                    IF timestamp # NoTimestamp THEN timestamp ELSE now)
            /\ upload_status' = 200
            /\ last_pub' = [last_pub EXCEPT ![device_id] = Some(decoded.bytes)]
            /\ pub_count' = [pub_count EXCEPT ![device_id] = Min(@ + 1, 2)]
    /\ UNCHANGED <<now, store_vars, sub_pc, sub_device, sub_out, sub_seen, sub_gone>>

upload_frame(device_id, frame_b64, timestamp) ==
    LET decoded == b64decode(frame_b64) IN
    /\ IF ~decoded.ok
       THEN /\ upload_status' = 400
            /\ UNCHANGED <<LATEST_FRAMES, last_pub, pub_count>>
       ELSE /\ LATEST_FRAMES' = StoreFrame(LATEST_FRAMES, device_id, decoded.bytes,
                                    IF timestamp # NoTimestamp THEN timestamp ELSE now)
            /\ upload_status' = 200
            /\ last_pub' = [last_pub EXCEPT ![device_id] = Some(decoded.bytes)]
            /\ pub_count' = [pub_count EXCEPT ![device_id] = Min(@ + 1, 2)]
    /\ UNCHANGED <<now, store_vars, sub_pc, sub_device, sub_out, sub_seen, sub_gone>>

(***************************************************************************)
(* GET /stream/{device_id}: one mjpeg_generator per viewer connection.     *)
(***************************************************************************)
Subs == 1..NumSubs

Chunk(frame) ==
    [boundary |-> "--frame", header |-> "\r\nContent-Type: image/jpeg\r\n\r\n",
     body |-> frame, trailer |-> "\r\n"]

stream_device(s, device_id) ==
    /\ sub_pc[s] = "closed"
    /\ sub_pc' = [sub_pc EXCEPT ![s] = "poll"]
    /\ sub_device' = [sub_device EXCEPT ![s] = device_id]
    /\ UNCHANGED <<now, store_vars, LATEST_FRAMES, upload_status, sub_out, last_pub, pub_count,
                   sub_seen, sub_gone>>

\* A pass that skips the frame it yielded on the pass before.
PollEmitOnce(s, frames) ==
    IF frames[sub_device[s]] # Absent
       /\ sub_out[s] # <<Chunk(frames[sub_device[s]][1].frame)>>
    THEN <<Chunk(frames[sub_device[s]][1].frame)>>
    ELSE <<>>

\* One pass of the loop body up to its first suspension: the yield when the
\* slot holds a frame, the sleep otherwise.
PollEmit(s, frames) ==
    IF frames[sub_device[s]] # Absent
    THEN <<Chunk(frames[sub_device[s]][1].frame)>>
    ELSE <<>>

\* A loop that returns when it finds the slot empty.
mjpeg_poll_returns(s) ==
    /\ sub_pc[s] = "poll"
    /\ sub_out' = [sub_out EXCEPT ![s] = PollEmit(s, LATEST_FRAMES)]
    /\ sub_pc' = [sub_pc EXCEPT ![s] =
                     IF LATEST_FRAMES[sub_device[s]] # Absent THEN "yield" ELSE "returned"]
    /\ sub_seen' = [sub_seen EXCEPT ![s] = pub_count[sub_device[s]]]
    /\ UNCHANGED <<now, store_vars, LATEST_FRAMES, upload_status, sub_device, last_pub, pub_count,
                   sub_gone>>

mjpeg_poll(s) ==
    /\ sub_pc[s] = "poll"
    /\ sub_out' = [sub_out EXCEPT ![s] = PollEmit(s, LATEST_FRAMES)]
    /\ sub_pc' = [sub_pc EXCEPT ![s] =
                     IF LATEST_FRAMES[sub_device[s]] # Absent THEN "yield" ELSE "sleep"]
    /\ sub_seen' = [sub_seen EXCEPT ![s] = pub_count[sub_device[s]]]
    /\ UNCHANGED <<now, store_vars, LATEST_FRAMES, upload_status, sub_device, last_pub, pub_count,
                   sub_gone>>

\* The response asks for the next chunk: the generator leaves the yield and
\* reaches asyncio.sleep(0.1).
mjpeg_resume(s) ==
    /\ sub_pc[s] = "yield"
    /\ sub_pc' = [sub_pc EXCEPT ![s] = "sleep"]
    /\ UNCHANGED <<now, store_vars, LATEST_FRAMES, upload_status, sub_device, sub_out, last_pub,
                   pub_count, sub_seen, sub_gone>>

\* The sleep of one polling interval ends.
mjpeg_wake(s) ==
    /\ sub_pc[s] = "sleep"
    /\ sub_pc' = [sub_pc EXCEPT ![s] = "poll"]
    /\ UNCHANGED <<now, store_vars, LATEST_FRAMES, upload_status, sub_device, sub_out, last_pub,
                   pub_count, sub_seen, sub_gone>>

(***************************************************************************)
(* The end of a viewer connection.  mjpeg_generator never looks at the     *)
(* connection: the StreamingResponse that stream_device returns waits for  *)
(* the http.disconnect of the connection next to the task that iterates    *)
(* the generator, and cancels that task when the message arrives.  The     *)
(* cancellation reaches the generator where it is suspended (the yield,    *)
(* the sleep) or before its next step runs, and nothing in the generator   *)
(* catches it.                                                             *)
(***************************************************************************)
viewer_disconnect(s) ==
    /\ sub_pc[s] \in {"poll", "yield", "sleep"}
    /\ ~sub_gone[s]
    /\ sub_gone' = [sub_gone EXCEPT ![s] = TRUE]
    /\ UNCHANGED <<now, store_vars, LATEST_FRAMES, upload_status, sub_pc, sub_device, sub_out,
                   last_pub, pub_count, sub_seen>>

\* A cancellation that arrives only where the response sends a chunk.
stream_cancel_on_send(s) ==
    /\ sub_gone[s]
    /\ sub_pc[s] = "yield"
    /\ sub_pc' = [sub_pc EXCEPT ![s] = "cancelled"]
    /\ UNCHANGED <<now, store_vars, LATEST_FRAMES, upload_status, sub_device, sub_out,
                   last_pub, pub_count, sub_seen, sub_gone>>

stream_cancel(s) ==
    /\ sub_gone[s]
    /\ sub_pc[s] \in {"poll", "yield", "sleep"}
    /\ sub_pc' = [sub_pc EXCEPT ![s] = "cancelled"]
    /\ UNCHANGED <<now, store_vars, LATEST_FRAMES, upload_status, sub_device, sub_out,
                   last_pub, pub_count, sub_seen, sub_gone>>

\* The history of a viewer's passes: sub_log keeps what the last two yielded.
LastTwo(log) == IF Len(log) > 2 THEN SubSeq(log, Len(log) - 1, Len(log)) ELSE log

Recorded(s) == sub_log' = [sub_log EXCEPT ![s] = LastTwo(Append(@, sub_out'[s]))]

AdvanceClock ==
    /\ now < MaxTime
    /\ now' = now + 1
    /\ UNCHANGED <<relay_vars, store_vars>>

(***************************************************************************)
(* The person_emotions table (models.py): a row per insert, the row's      *)
(* position being its autoincremented id.  The table declares no unique    *)
(* constraint on (device_id, person_id).                                   *)
(***************************************************************************)
Persons == {"1", "2"}

PersonEmotion(device_id, person_id, time_happy, time_sad, time_angry, last_seen) ==
    [device_id |-> device_id, person_id |-> person_id, time_happy |-> time_happy,
     time_sad |-> time_sad, time_angry |-> time_angry, last_seen |-> last_seen]

\* The columns the handler assigns on an existing row.
Attrs == {"time_happy", "time_sad", "time_angry", "last_seen"}

(***************************************************************************)
(* EmotionsBatchIn (schemas.py).  A cumulative dict is the sequence of its *)
(* items, a timestamp string the sequence of its parts.                    *)
(***************************************************************************)
Item(k, v) == [key |-> k, value |-> v]

CumulativeInputs ==
    { <<Item("sad", 1)>>,
      <<Item("happy", 1), Item("angry", 2), Item("surprised", 3)>> }

TimestampInputs == { <<"1970-01-01T00:00:00", "Z">>, <<"not-a-date">> }

PeopleInputs(persons) ==
    UNION {[1..n -> [person_id : persons, cumulative : CumulativeInputs]] :
             n \in 0..MaxPeople}

Batches(devices, persons) ==
    [device_id : devices, timestamp : TimestampInputs, people : PeopleInputs(persons)]

\* The batches tried one after the other, and the ones tried concurrently:
\* those of one device.
BatchInputs == Batches(Devices, Persons)
RacingInputs == Batches({"jetson_1"}, Persons)

\* dict.get(key, default)
RECURSIVE DictGet(_, _, _)
DictGet(d, key, default) ==
    IF d = <<>> THEN default
    ELSE IF d[Len(d)].key = key THEN d[Len(d)].value
    ELSE DictGet(SubSeq(d, 1, Len(d) - 1), key, default)

\* batch.timestamp.replace("Z", "+00:00")
ReplaceZ(ts) == [i \in 1..Len(ts) |-> IF ts[i] = "Z" THEN "+00:00" ELSE ts[i]]

\* datetime.fromisoformat: seconds since the epoch, or a ValueError.
IsoSeconds(part) == CASE part = "1970-01-01T00:00:00" -> 0 [] OTHER -> -1

fromisoformat(ts) ==
    IF /\ Len(ts) \in {1, 2}
       /\ IsoSeconds(ts[1]) >= 0
       /\ Len(ts) = 2 => ts[2] = "+00:00"
    THEN [ok |-> TRUE, value |-> IsoSeconds(ts[1])]
    ELSE [ok |-> FALSE, value |-> 0]

\* A fallback to the epoch instead of the clock.
ResolveTimestampEpoch(ts, utcnow) ==
    IF fromisoformat(ReplaceZ(ts)).ok
    THEN fromisoformat(ReplaceZ(ts)).value
    ELSE 0

\* main.py:159-163
ResolveTimestamp(ts, utcnow) ==
    IF fromisoformat(ReplaceZ(ts)).ok
    THEN fromisoformat(ReplaceZ(ts)).value
    ELSE utcnow

Reqs == 1..NumReqs

NoBatch == [device_id |-> None, timestamp |-> <<>>, people |-> <<>>]

(***************************************************************************)
(* The Session of a request (db.py get_session): the objects it has loaded *)
(* or inserted, each with the column values as loaded or last flushed      *)
(* (committed) and as assigned since (current), and the objects added but  *)
(* not yet inserted.  A flush sends, for every loaded object, an UPDATE of *)
(* the columns whose current value differs from the committed one, and an  *)
(* INSERT for every new object.  The first statement that writes takes the *)
(* write lock of the database file, held until the commit.                 *)
(***************************************************************************)
EmptySession == [objs |-> <<>>, new |-> <<>>]

ColumnsOf(row) == [c \in Attrs |-> row[c]]

Dirty(obj) == {c \in Attrs : obj.current[c] # obj.committed[c]}

HasPending(session) ==
    \/ session.new # <<>>
    \/ \E k \in 1..Len(session.objs) : Dirty(session.objs[k]) # {}

\* UPDATE person_emotions SET <the dirty columns> WHERE id = obj.id
UpdateRow(row, obj) ==
    [c \in DOMAIN row |-> IF c \in Dirty(obj) THEN obj.current[c] ELSE row[c]]

ObjsOf(session, id) == {k \in 1..Len(session.objs) : session.objs[k].id = id}

Flush(view, session) ==
    LET updated == [id \in 1..Len(view) |->
                      IF ObjsOf(session, id) # {}
                      THEN UpdateRow(view[id],
                                     session.objs[CHOOSE k \in ObjsOf(session, id) : TRUE])
                      ELSE view[id]]
        flushed == [k \in 1..Len(session.objs) |->
                      [session.objs[k] EXCEPT !.committed = session.objs[k].current]]
        inserted == [k \in 1..Len(session.new) |->
                      [id |-> Len(view) + k,
                       committed |-> ColumnsOf(session.new[k]),
                       current |-> ColumnsOf(session.new[k])]]
    IN  [view |-> updated \o session.new,
         sess |-> [objs |-> flushed \o inserted, new |-> <<>>]]

\* A session that does not flush before its queries.
AutoflushOff(r) ==
    [view |-> IF writer = r THEN txn ELSE store, sess |-> sess[r]]

\* What session.exec reads: autoflush first, then the SELECT on the result.
Autoflush(r) ==
    IF HasPending(sess[r])
    THEN Flush(IF writer = r THEN txn ELSE store, sess[r])
    ELSE [view |-> IF writer = r THEN txn ELSE store, sess |-> sess[r]]

\* The write lock is free for r, or r writes nothing.
CanWrite(r) == HasPending(sess[r]) => writer \in {0, r}

\* A lookup by the device alone.
SelectIdsOfDevice(view, device_id, person_id) ==
    {id \in 1..Len(view) : view[id].device_id = device_id}

\* select(PersonEmotion).where(device_id == ..., person_id == ...)
SelectIds(view, device_id, person_id) ==
    {id \in 1..Len(view) : /\ view[id].device_id = device_id
                           /\ view[id].person_id = person_id}

SetMin(S) == CHOOSE x \in S : \A y \in S : x <= y

\* main.py:185-189 on the object of row id: the one the session already
\* holds, else one loaded from the row.
Assign(session, view, id, values) ==
    IF ObjsOf(session, id) # {}
    THEN [session EXCEPT
            !.objs[CHOOSE k \in ObjsOf(session, id) : TRUE].current = values]
    ELSE [session EXCEPT
            !.objs = Append(@, [id |-> id, committed |-> ColumnsOf(view[id]),
                                current |-> values])]

\* An upsert that adds the reported times to the stored ones.
UpsertSummed(session, view, device_id, person, timestamp) ==
    LET time_happy == DictGet(person.cumulative, "happy", 0)
        time_sad == DictGet(person.cumulative, "sad", 0)
        time_angry == DictGet(person.cumulative, "angry", 0)
        existing == SelectIds(view, device_id, person.person_id)
        old == view[SetMin(existing)]
    IN  IF existing # {}
        THEN Assign(session, view, SetMin(existing),
                    [time_happy |-> old.time_happy + time_happy,
                     time_sad |-> old.time_sad + time_sad,
                     time_angry |-> old.time_angry + time_angry,
                     last_seen |-> timestamp])
        ELSE [session EXCEPT
                !.new = Append(@, PersonEmotion(device_id, person.person_id, time_happy,
                                                time_sad, time_angry, timestamp))]

\* An upsert that keeps the stored time of an emotion the entry omits.
UpsertKeeps(session, view, device_id, person, timestamp) ==
    LET existing == SelectIds(view, device_id, person.person_id)
        old == view[SetMin(existing)]
    IN  IF existing # {}
        THEN Assign(session, view, SetMin(existing),
                    [time_happy |-> DictGet(person.cumulative, "happy", old.time_happy),
                     time_sad |-> DictGet(person.cumulative, "sad", old.time_sad),
                     time_angry |-> DictGet(person.cumulative, "angry", old.time_angry),
                     last_seen |-> timestamp])
        ELSE [session EXCEPT
                !.new = Append(@, PersonEmotion(device_id, person.person_id,
                                                DictGet(person.cumulative, "happy", 0),
                                                DictGet(person.cumulative, "sad", 0),
                                                DictGet(person.cumulative, "angry", 0),
                                                timestamp))]

\* One entry of batch.people (main.py:168-202).
Upsert(session, view, device_id, person, timestamp) ==
    LET time_happy == DictGet(person.cumulative, "happy", 0)
        time_sad == DictGet(person.cumulative, "sad", 0)
        time_angry == DictGet(person.cumulative, "angry", 0)
        existing == SelectIds(view, device_id, person.person_id)
    IN  IF existing # {}
        THEN Assign(session, view, SetMin(existing),
                    [time_happy |-> time_happy, time_sad |-> time_sad,
                     time_angry |-> time_angry, last_seen |-> timestamp])
        ELSE [session EXCEPT
                !.new = Append(@, PersonEmotion(device_id, person.person_id, time_happy,
                                                time_sad, time_angry, timestamp))]

(***************************************************************************)
(* POST /api/emotions/batch.  The handler is a plain function, which       *)
(* FastAPI runs on a worker thread: requests interleave between their      *)
(* statements.                                                             *)
(***************************************************************************)
ingest_begin(r, batch) ==
    /\ req_pc[r] = "idle"
    /\ req_batch' = [req_batch EXCEPT ![r] = batch]
    /\ req_timestamp' = [req_timestamp EXCEPT ![r] = ResolveTimestamp(batch.timestamp, now)]
    /\ req_start' = [req_start EXCEPT ![r] = now]
    /\ req_i' = [req_i EXCEPT ![r] = 1]
    /\ updated_count' = [updated_count EXCEPT ![r] = 0]
    /\ req_pc' = [req_pc EXCEPT ![r] = IF batch.people = <<>> THEN "commit" ELSE "loop"]
    /\ UNCHANGED <<now, relay_vars, store, writer, txn, req_status, sess, summary, commit_order,
                   initial_store>>

\* A loop that counts only the entries it inserts.
ingest_person_inserts(r) ==
    /\ req_pc[r] = "loop"
    /\ CanWrite(r)
    /\ LET fl == Autoflush(r) IN
       /\ sess' = [sess EXCEPT ![r] =
                     Upsert(fl.sess, fl.view, req_batch[r].device_id,
                            req_batch[r].people[req_i[r]], req_timestamp[r])]
       /\ IF HasPending(sess[r])
          THEN writer' = r /\ txn' = fl.view
          ELSE UNCHANGED <<writer, txn>>
       /\ updated_count' = [updated_count EXCEPT ![r] =
                              IF SelectIds(fl.view, req_batch[r].device_id,
                                           req_batch[r].people[req_i[r]].person_id) = {}
                              THEN @ + 1 ELSE @]
    /\ req_i' = [req_i EXCEPT ![r] = @ + 1]
    /\ req_pc' = [req_pc EXCEPT ![r] =
                    IF req_i[r] = Len(req_batch[r].people) THEN "commit" ELSE "loop"]
    /\ UNCHANGED <<now, relay_vars, store, req_batch, req_timestamp, req_status, summary,
                   req_start, commit_order, initial_store>>

ingest_person(r) ==
    /\ req_pc[r] = "loop"
    /\ CanWrite(r)
    /\ LET fl == Autoflush(r) IN
       /\ sess' = [sess EXCEPT ![r] =
                     Upsert(fl.sess, fl.view, req_batch[r].device_id,
                            req_batch[r].people[req_i[r]], req_timestamp[r])]
       /\ IF HasPending(sess[r])
          THEN writer' = r /\ txn' = fl.view
          ELSE UNCHANGED <<writer, txn>>
    /\ updated_count' = [updated_count EXCEPT ![r] = @ + 1]
    /\ req_i' = [req_i EXCEPT ![r] = @ + 1]
    /\ req_pc' = [req_pc EXCEPT ![r] =
                    IF req_i[r] = Len(req_batch[r].people) THEN "commit" ELSE "loop"]
    /\ UNCHANGED <<now, relay_vars, store, req_batch, req_timestamp, req_status, summary,
                   req_start, commit_order, initial_store>>

\* session.commit() and the response (main.py:205-207).
ingest_commit(r) ==
    /\ req_pc[r] = "commit"
    /\ CanWrite(r)
    /\ IF HasPending(sess[r]) \/ writer = r
       THEN /\ store' = Autoflush(r).view
            /\ writer' = 0
            /\ txn' = <<>>
       ELSE UNCHANGED <<store, writer, txn>>
    /\ sess' = [sess EXCEPT ![r] = EmptySession]
    /\ req_pc' = [req_pc EXCEPT ![r] = "done"]
    /\ req_status' = [req_status EXCEPT ![r] = 200]
    /\ commit_order' = Append(commit_order, r)
    /\ UNCHANGED <<now, relay_vars, req_batch, req_timestamp, req_i, updated_count, summary,
                   req_start, initial_store>>

\* A failure that leaves the session's changes in the table.
ingest_locked_keeps(r) ==
    /\ req_pc[r] \in {"loop", "commit"}
    /\ ~CanWrite(r)
    /\ store' = Flush(store, sess[r]).view
    /\ sess' = [sess EXCEPT ![r] = EmptySession]
    /\ req_pc' = [req_pc EXCEPT ![r] = "error"]
    /\ req_status' = [req_status EXCEPT ![r] = 500]
    /\ UNCHANGED <<now, relay_vars, writer, txn, req_batch, req_timestamp, req_i,
                   updated_count, summary, req_start, commit_order, initial_store>>

\* The write lock stays with another session past the busy timeout: the
\* statement raises "database is locked", the session is closed with its
\* changes unsent and the request answers 500.
ingest_locked(r) ==
    /\ req_pc[r] \in {"loop", "commit"}
    /\ ~CanWrite(r)
    /\ sess' = [sess EXCEPT ![r] = EmptySession]
    /\ req_pc' = [req_pc EXCEPT ![r] = "error"]
    /\ req_status' = [req_status EXCEPT ![r] = 500]
    /\ UNCHANGED <<now, relay_vars, store, writer, txn, req_batch, req_timestamp, req_i,
                   updated_count, summary, req_start, commit_order, initial_store>>

\* The table as an earlier run of the process left it in ./emotion.db
\* (create_db_and_tables keeps existing rows).
SeedStores ==
    { <<>>,
      <<PersonEmotion("jetson_1", "1", 0, 0, 0, 0)>>,
      <<PersonEmotion("jetson_1", "1", 1, 1, 1, 0),
        PersonEmotion("jetson_2", "2", 0, 2, 0, 0)>> }

InitRequests ==
    /\ now = 1
    /\ initial_store = store
    /\ summary = Absent
    /\ writer = 0
    /\ txn = <<>>
    /\ req_pc = [r \in Reqs |-> "idle"]
    /\ req_batch = [r \in Reqs |-> NoBatch]
    /\ req_timestamp = [r \in Reqs |-> 0]
    /\ req_i = [r \in Reqs |-> 0]
    /\ updated_count = [r \in Reqs |-> 0]
    /\ req_status = [r \in Reqs |-> 0]
    /\ sess = [r \in Reqs |-> EmptySession]
    /\ req_start = [r \in Reqs |-> 0]
    /\ commit_order = <<>>

InitStore == store \in SeedStores /\ InitRequests

InitEmpty == store = <<>> /\ InitRequests

(***************************************************************************)
(* GET /api/dashboard/summary: one SELECT on the committed table, then the *)
(* loop over its rows.                                                     *)
(***************************************************************************)
\* A query without its where clause.
RecordsOfAll(view, device_id) == view

\* select(PersonEmotion).where(device_id == ...), .all(): the rows in id order.
RECURSIVE RecordsOf(_, _)
RecordsOf(view, device_id) ==
    IF view = <<>> THEN <<>>
    ELSE IF view[Len(view)].device_id = device_id
    THEN Append(RecordsOf(SubSeq(view, 1, Len(view) - 1), device_id), view[Len(view)])
    ELSE RecordsOf(SubSeq(view, 1, Len(view) - 1), device_id)

\* A scan that lets a later key replace the best one on a tie.
RECURSIVE PyMaxLast(_, _, _)
PyMaxLast(keys, value, best) ==
    IF keys = <<>> THEN best
    ELSE PyMaxLast(Tail(keys), value,
                   IF value[Head(keys)] >= value[best] THEN Head(keys) ELSE best)

\* max(emotion_times, key=emotion_times.get): the keys in insertion order,
\* a later key replacing the best one only when its value is greater.
RECURSIVE PyMax(_, _, _)
PyMax(keys, value, best) ==
    IF keys = <<>> THEN best
    ELSE PyMax(Tail(keys), value, IF value[Head(keys)] > value[best] THEN Head(keys) ELSE best)

\* The derivation without its all-zero case.
DominantEmotionNoDefault(record) ==
    PyMax(<<"sad", "angry">>,
          [happy |-> record.time_happy, sad |-> record.time_sad,
           angry |-> record.time_angry], "happy")

\* main.py:249-262
DominantEmotion(record) ==
    LET emotion_times == [happy |-> record.time_happy, sad |-> record.time_sad,
                          angry |-> record.time_angry]
        current_emotion == PyMax(<<"sad", "angry">>, emotion_times, "happy")
    IN  IF record.time_happy = 0 /\ record.time_sad = 0 /\ record.time_angry = 0
        THEN "neutral"
        ELSE current_emotion

\* datetime.isoformat() + "Z"
IsoFormatZ(t) == [seconds |-> t, suffix |-> "Z"]

PersonStateOut(record) ==
    [person_id |-> record.person_id, current_emotion |-> DominantEmotion(record),
     time_happy |-> record.time_happy, time_sad |-> record.time_sad,
     time_angry |-> record.time_angry, last_seen |-> IsoFormatZ(record.last_seen)]

\* The loop of main.py:242-273 over the first n records.
RECURSIVE Aggregate(_, _)
Aggregate(person_records, n) ==
    IF n = 0
    THEN [total_happy |-> 0, total_sad |-> 0, total_angry |-> 0, current_people |-> <<>>]
    ELSE LET acc == Aggregate(person_records, n - 1)
             record == person_records[n]
         IN  [total_happy |-> acc.total_happy + record.time_happy,
              total_sad |-> acc.total_sad + record.time_sad,
              total_angry |-> acc.total_angry + record.time_angry,
              current_people |-> Append(acc.current_people, PersonStateOut(record))]

\* A summary whose totals run over the whole table.
DashboardSummaryOutAllRows(view, device_id, utcnow) ==
    LET person_records == RecordsOf(view, device_id)
        acc == Aggregate(person_records, Len(person_records))
        all == Aggregate(view, Len(view))
    IN  [status |-> 200,
         device_id |-> device_id,
         device_name |-> "Entrance Camera",
         updated_at |-> IsoFormatZ(utcnow),
         emotion_totals |-> [happy |-> all.total_happy, sad |-> all.total_sad,
                             angry |-> all.total_angry, neutral |-> 0],
         current_people |-> acc.current_people]

DashboardSummaryOut(view, device_id, utcnow) ==
    LET person_records == RecordsOf(view, device_id)
        acc == Aggregate(person_records, Len(person_records))
    IN  [status |-> 200,
         device_id |-> device_id,
         device_name |-> "Entrance Camera",
         updated_at |-> IsoFormatZ(utcnow),
         emotion_totals |-> [happy |-> acc.total_happy, sad |-> acc.total_sad,
                             angry |-> acc.total_angry, neutral |-> 0],
         current_people |-> acc.current_people]

get_dashboard_summary(device_id) ==
    /\ summary' = Some(DashboardSummaryOut(store, device_id, now))
    /\ UNCHANGED <<now, relay_vars, store, writer, txn, req_pc, req_batch, req_timestamp,
                   req_i, updated_count, req_status, sess, req_start, commit_order,
                   initial_store>>

\* The device_id values of the query: the devices and one that never reports.
QueryDevices == Devices \cup {"unknown_device"}

\* The tables the summary is computed on: every table of at most MaxRecords
\* rows with times up to MaxVal.
SummaryStores ==
    UNION {[1..n -> {PersonEmotion(d, p, h, s, a, 0) :
                       d \in Devices, p \in Persons,
                       h \in 0..MaxVal, s \in 0..MaxVal, a \in 0..MaxVal}] :
             n \in 0..MaxRecords}

InitSummary == store \in SummaryStores /\ InitRequests

InitRelay ==
    /\ LATEST_FRAMES = [d \in Devices |-> Absent]
    /\ upload_status = 0
    /\ sub_pc = [s \in Subs |-> "closed"]
    /\ sub_device = [s \in Subs |-> None]
    /\ sub_out = [s \in Subs |-> <<>>]
    /\ last_pub = [d \in Devices |-> Absent]
    /\ pub_count = [d \in Devices |-> 0]
    /\ sub_seen = [s \in Subs |-> 0]
    /\ sub_gone = [s \in Subs |-> FALSE]
    /\ sub_log = [s \in Subs |-> <<>>]

\* The relay with viewers that stay connected; the passes are not recorded.
NextRelay ==
    \/ \E d \in Devices, b \in FramePayloads, t \in FrameTimestamps :
          upload_frame(d, b, t) /\ UNCHANGED sub_log
    \/ \E s \in Subs, d \in Devices : stream_device(s, d) /\ UNCHANGED sub_log
    \/ \E s \in Subs : mjpeg_poll(s) /\ UNCHANGED sub_log
    \/ \E s \in Subs : mjpeg_resume(s) /\ UNCHANGED sub_log
    \/ \E s \in Subs : mjpeg_wake(s) /\ UNCHANGED sub_log

\* The relay with viewers that come and go, one device publishing two
\* frames and the other none; the passes are recorded.
StreamDevices == {"jetson_1"}

StreamPayloads == { <<"A", "A", "=", "=">>, <<"A", "Q", "=", "=">> }

NextStream ==
    \/ \E d \in StreamDevices, b \in StreamPayloads :
          upload_frame(d, b, NoTimestamp) /\ UNCHANGED sub_log
    \/ \E s \in Subs, d \in Devices : stream_device(s, d) /\ UNCHANGED sub_log
    \/ \E s \in Subs : mjpeg_poll(s) /\ Recorded(s)
    \/ \E s \in Subs : mjpeg_resume(s) /\ UNCHANGED sub_log
    \/ \E s \in Subs : mjpeg_wake(s) /\ UNCHANGED sub_log
    \/ \E s \in Subs : viewer_disconnect(s) /\ UNCHANGED sub_log
    \/ \E s \in Subs : stream_cancel(s) /\ UNCHANGED sub_log

\* Request r is called when every request before it has been answered.
Sequential(r) ==
    /\ \A q \in Reqs : q < r => req_pc[q] \in {"done", "error"}
    /\ \A q \in Reqs : q > r => req_pc[q] = "idle"

NextSeq ==
    \/ \E r \in Reqs : Sequential(r) /\ \E b \in BatchInputs : ingest_begin(r, b)
    \/ \E r \in Reqs : ingest_person(r)
    \/ \E r \in Reqs : ingest_commit(r)
    \/ AdvanceClock

NextStore ==
    \/ \E r \in Reqs, b \in RacingInputs : ingest_begin(r, b)
    \/ \E r \in Reqs : ingest_person(r)
    \/ \E r \in Reqs : ingest_commit(r)
    \/ \E r \in Reqs : ingest_locked(r)
    \/ AdvanceClock

NextSummary == \E d \in QueryDevices : get_dashboard_summary(d)

Next ==
    \/ \E d \in Devices, b \in FramePayloads, t \in FrameTimestamps :
          upload_frame(d, b, t) /\ UNCHANGED sub_log
    \/ \E s \in Subs, d \in Devices : stream_device(s, d) /\ UNCHANGED sub_log
    \/ \E s \in Subs : mjpeg_poll(s) /\ Recorded(s)
    \/ \E s \in Subs : mjpeg_resume(s) /\ UNCHANGED sub_log
    \/ \E s \in Subs : mjpeg_wake(s) /\ UNCHANGED sub_log
    \/ \E s \in Subs : viewer_disconnect(s) /\ UNCHANGED sub_log
    \/ \E s \in Subs : stream_cancel(s) /\ UNCHANGED sub_log
    \/ \E r \in Reqs, b \in BatchInputs : ingest_begin(r, b)
    \/ \E r \in Reqs : ingest_person(r)
    \/ \E r \in Reqs : ingest_commit(r)
    \/ \E r \in Reqs : ingest_locked(r)
    \/ \E d \in QueryDevices : get_dashboard_summary(d)
    \/ AdvanceClock

vars == <<now, relay_vars, store_vars>>

Init == InitRelay /\ InitStore

\* The whole service.
Spec == Init /\ [][Next]_vars

\* The frame relay alone, the batch ingest with its requests one after the
\* other and concurrently, and the summary of a given table.

InitOfRelay == InitRelay /\ InitEmpty

SpecRelay == InitOfRelay /\ [][NextRelay]_vars

SpecSeq == Init /\ [][NextSeq]_vars

SpecStore == Init /\ [][NextStore]_vars

InitOfSummary == InitRelay /\ InitSummary

SpecSummary == InitOfSummary /\ [][NextSummary]_vars

\* The table under concurrent batches of both devices and summaries, the
\* batches with the timestamp that does not parse and the clock at rest.
ServiceInputs == {b \in BatchInputs : b.timestamp = <<"not-a-date">>}

NextService ==
    \/ \E r \in Reqs, b \in ServiceInputs : ingest_begin(r, b)
    \/ \E r \in Reqs : ingest_person(r)
    \/ \E r \in Reqs : ingest_commit(r)
    \/ \E r \in Reqs : ingest_locked(r)
    \/ \E d \in QueryDevices : get_dashboard_summary(d)

SpecService == Init /\ [][NextService]_vars

\* The register under publishes of two frames to both devices, with viewers
\* that stay connected; the passes are not recorded.
NextRegister ==
    \/ \E d \in Devices, b \in StreamPayloads :
          upload_frame(d, b, NoTimestamp) /\ UNCHANGED sub_log
    \/ \E s \in Subs, d \in Devices : stream_device(s, d) /\ UNCHANGED sub_log
    \/ \E s \in Subs : mjpeg_poll(s) /\ UNCHANGED sub_log
    \/ \E s \in Subs : mjpeg_resume(s) /\ UNCHANGED sub_log
    \/ \E s \in Subs : mjpeg_wake(s) /\ UNCHANGED sub_log

InitOfRegister == InitRelay /\ InitEmpty

SpecRegister == InitOfRegister /\ [][NextRegister]_vars

InitOfStream == InitRelay /\ InitEmpty

SpecStream == InitOfStream /\ [][NextStream]_vars

\* The event loop runs every task that is ready: a sleep that has lasted its
\* interval ends, a woken generator makes its pass, a cancellation that is
\* due is delivered.  The transport takes every chunk of a viewer that
\* stays connected, so that the generator is asked for the next one.
StreamFairness ==
    \A s \in Subs :
        /\ WF_vars(mjpeg_wake(s) /\ UNCHANGED sub_log)
        /\ WF_vars(mjpeg_poll(s) /\ Recorded(s))
        /\ WF_vars(mjpeg_resume(s) /\ UNCHANGED sub_log)
        /\ WF_vars(stream_cancel(s) /\ UNCHANGED sub_log)

SpecStreamFair == InitOfStream /\ [][NextStream]_vars /\ StreamFairness
(***************************************************************************)
(* What the claims speak of.                                               *)
(***************************************************************************)
SetMax(S) == CHOOSE x \in S : \A y \in S : x >= y

\* The entries of a batch about a person, and the values the batch reports
\* for the person: those of its last such entry.
EntriesOf(batch, person_id) ==
    {k \in 1..Len(batch.people) : batch.people[k].person_id = person_id}

Reported(batch, person_id, timestamp) ==
    LET cumulative == batch.people[SetMax(EntriesOf(batch, person_id))].cumulative
    IN  [time_happy |-> DictGet(cumulative, "happy", 0),
         time_sad |-> DictGet(cumulative, "sad", 0),
         time_angry |-> DictGet(cumulative, "angry", 0),
         last_seen |-> timestamp]

\* The committed requests that mention an identity, by position in the
\* order of the commits.
AppliedTo(device_id, person_id) ==
    {k \in 1..Len(commit_order) :
        /\ req_batch[commit_order[k]].device_id = device_id
        /\ EntriesOf(req_batch[commit_order[k]], person_id) # {}}

LastApplied(device_id, person_id) == commit_order[SetMax(AppliedTo(device_id, person_id))]

TimesOf(row) ==
    [time_happy |-> row.time_happy, time_sad |-> row.time_sad, time_angry |-> row.time_angry]

TimesReported(r, person_id) ==
    TimesOf(Reported(req_batch[r], person_id, req_timestamp[r]))

\* C1: with the batches applied one after the other, every identity that a
\* committed batch mentions has exactly one row, and the row's three times
\* are those of the last committed batch that mentions it.
C1_LastWriteWins ==
    \A d \in Devices, p \in Persons :
        AppliedTo(d, p) # {} =>
            /\ Cardinality(SelectIds(store, d, p)) = 1
            /\ TimesOf(store[SetMin(SelectIds(store, d, p))])
                 = TimesReported(LastApplied(d, p), p)

\* Two committed batches mention one identity with different times, and the
\* stored times are neither the first batch's nor the sum of the two.
C1_Witness ==
    \E d \in Devices, p \in Persons :
        /\ Cardinality(AppliedTo(d, p)) = 2
        /\ Cardinality(SelectIds(store, d, p)) = 1
        /\ LET first == TimesReported(commit_order[1], p)
               second == TimesReported(commit_order[2], p)
               row == TimesOf(store[SetMin(SelectIds(store, d, p))])
           IN  /\ first # second
               /\ first.time_sad > 0
               /\ row = second

\* C2: no identity ever has more than one committed row, however the
\* requests interleave.
C2_OneRecordPerIdentity ==
    \A d \in Devices, p \in Persons : Cardinality(SelectIds(store, d, p)) <= 1

\* C3: when two requests, each with one entry for the same identity that was
\* in the table before both, have committed, the identity's row holds the
\* complete values (three times and last_seen) of one of the two batches.
C3_NoMixedRecord ==
    \A q, r \in Reqs, p \in Persons :
        ( /\ q # r
          /\ req_pc[q] = "done" /\ req_pc[r] = "done"
          /\ req_batch[q].device_id = req_batch[r].device_id
          /\ Len(req_batch[q].people) = 1 /\ req_batch[q].people[1].person_id = p
          /\ Len(req_batch[r].people) = 1 /\ req_batch[r].people[1].person_id = p
          /\ Cardinality(SelectIds(initial_store, req_batch[q].device_id, p)) = 1 )
        => LET row == store[SetMin(SelectIds(store, req_batch[q].device_id, p))]
           IN  ColumnsOf(row) \in
                 { Reported(req_batch[q], p, req_timestamp[q]),
                   Reported(req_batch[r], p, req_timestamp[r]) }

\* C4: a pass of a viewer's loop made after a publish to its device emits
\* exactly the bytes of the last completed publish to that device.
C4_PollSeesLatestPublish ==
    [][\A s \in Subs :
         ( /\ sub_pc[s] = "poll" /\ sub_pc'[s] # "poll"
           /\ last_pub[sub_device[s]] # Absent )
         => sub_out'[s] = <<Chunk(last_pub[sub_device[s]][1])>>]_vars

\* A viewer's pass that came after the second publish to its device and
\* emitted that publish's bytes.
C4_Witness ==
    \E s \in Subs :
        /\ sub_pc[s] = "yield"
        /\ sub_seen[s] = 2
        /\ pub_count[sub_device[s]] = 2
        /\ sub_out[s] = <<Chunk(last_pub[sub_device[s]][1])>>

\* RFC 4648: whole quads of alphabet characters, the last quad ending in at
\* most two padding characters.
ValidBase64(s) ==
    /\ Len(s) % 4 = 0
    /\ \A i \in 1..Len(s) :
          \/ B64Value(s[i]) < 64
          \/ /\ s[i] = "="
             /\ i >= Len(s) - 1
             /\ \A j \in i..Len(s) : s[j] = "="

\* C5: an upload whose frame_b64 is not valid base64 answers 400 and leaves
\* every slot as it was.
C5_InvalidBase64Rejected ==
    [][\A d \in Devices, b \in FramePayloads, t \in FrameTimestamps :
         (upload_frame(d, b, t) /\ ~ValidBase64(b))
         => (upload_status' = 400 /\ LATEST_FRAMES' = LATEST_FRAMES)]_vars
\* The greatest of the three times of a person state.
Greatest(ps) ==
    SetMax({ps.time_happy, ps.time_sad, ps.time_angry})

AllZero(ps) == ps.time_happy = 0 /\ ps.time_sad = 0 /\ ps.time_angry = 0

\* C6: a person whose three times are not all zero gets the emotion with
\* the greatest time, the first of happy, sad, angry among those that tie.
C6_DominantEmotion ==
    summary # Absent =>
        \A k \in 1..Len(summary[1].current_people) :
            LET ps == summary[1].current_people[k] IN
            ~AllZero(ps) =>
                ps.current_emotion =
                    IF ps.time_happy = Greatest(ps) THEN "happy"
                    ELSE IF ps.time_sad = Greatest(ps) THEN "sad"
                    ELSE "angry"

\* A summary with a person whose sad and angry times tie above the happy
\* time, derived as sad.
C6_Witness ==
    /\ summary # Absent
    /\ \E k \in 1..Len(summary[1].current_people) :
          LET ps == summary[1].current_people[k] IN
          /\ ps.time_happy < ps.time_sad
          /\ ps.time_sad = ps.time_angry
          /\ ps.current_emotion = "sad"

\* C7: a person is derived neutral exactly when its three times are all 0.
C7_NeutralIffAllZero ==
    summary # Absent =>
        \A k \in 1..Len(summary[1].current_people) :
            LET ps == summary[1].current_people[k] IN
            (ps.current_emotion = "neutral") <=> AllZero(ps)

\* A summary with a neutral person and a person that is not neutral.
C7_Witness ==
    /\ summary # Absent
    /\ \E j, k \in 1..Len(summary[1].current_people) :
          /\ AllZero(summary[1].current_people[j])
          /\ summary[1].current_people[j].current_emotion = "neutral"
          /\ summary[1].current_people[k].current_emotion = "happy"

\* The rows of a device in the table, and the sum of a column over rows.
IdsOfDevice(device_id) == {id \in 1..Len(store) : store[id].device_id = device_id}

RECURSIVE ColumnSum(_, _)
ColumnSum(ids, column) ==
    IF ids = {} THEN 0
    ELSE LET id == CHOOSE x \in ids : TRUE
         IN  store[id][column] + ColumnSum(ids \ {id}, column)

\* The k-th row of a set of rows, in id order.
Nth(ids, k) == CHOOSE id \in ids : Cardinality({x \in ids : x < id}) = k - 1

\* C8: the summary of a device has one person state per row of the device,
\* none for another device's rows, the sums of the rows' times as totals and
\* 0 as the neutral total.
C8_SummaryOfDevice ==
    summary # Absent =>
        LET out == summary[1]
            ids == IdsOfDevice(out.device_id)
        IN  /\ Len(out.current_people) = Cardinality(ids)
            /\ \A k \in 1..Len(out.current_people) :
                  /\ out.current_people[k].person_id = store[Nth(ids, k)].person_id
                  /\ TimesOf(out.current_people[k]) = TimesOf(store[Nth(ids, k)])
            /\ out.emotion_totals.happy = ColumnSum(ids, "time_happy")
            /\ out.emotion_totals.sad = ColumnSum(ids, "time_sad")
            /\ out.emotion_totals.angry = ColumnSum(ids, "time_angry")
            /\ out.emotion_totals.neutral = 0

\* A summary of two rows of one device with times on both.
C8_Witness ==
    /\ summary # Absent
    /\ Len(summary[1].current_people) = 2
    /\ summary[1].current_people[1].current_emotion = "happy"
    /\ summary[1].current_people[2].current_emotion = "sad"
    /\ summary[1].emotion_totals.happy = 2
    /\ summary[1].emotion_totals.sad = 2
    /\ summary[1].emotion_totals.angry = 0

\* C9: the summary of a device without rows answers 200 with no person
\* state and all four totals 0, whatever rows other devices have.
C9_EmptyDevice ==
    (summary # Absent /\ IdsOfDevice(summary[1].device_id) = {}) =>
        /\ summary[1].status = 200
        /\ summary[1].current_people = <<>>
        /\ summary[1].emotion_totals = [happy |-> 0, sad |-> 0, angry |-> 0, neutral |-> 0]

\* The summary of a device that never reported, while other devices have
\* rows with times.
C9_Witness ==
    /\ summary # Absent
    /\ summary[1].device_id = "unknown_device"
    /\ summary[1].current_people = <<>>
    /\ \E id \in 1..Len(store) : store[id].time_happy > 0

\* C10: a request whose timestamp does not parse is answered 200 with
\* updated_count the number of its entries, and when it has committed, every
\* person of the batch has a row whose last_seen is at or after the time of
\* the call.
C10_TimestampFallback ==
    \A r \in Reqs :
        req_batch[r].timestamp = <<"not-a-date">> =>
            /\ req_status[r] \in {0, 200}
            /\ req_pc[r] # "error"
            /\ (req_pc[r] = "done" /\ commit_order[Len(commit_order)] = r) =>
                  /\ updated_count[r] = Len(req_batch[r].people)
                  /\ \A k \in 1..Len(req_batch[r].people) :
                        \E id \in SelectIds(store, req_batch[r].device_id,
                                            req_batch[r].people[k].person_id) :
                            store[id].last_seen >= req_start[r]

\* A committed request with an unparseable timestamp, called after the
\* clock has advanced, that updated a row of the initial table and inserted
\* another one.
C10_Witness ==
    \E r \in Reqs :
        /\ req_batch[r].timestamp = <<"not-a-date">>
        /\ req_pc[r] = "done"
        /\ req_start[r] = 2
        /\ updated_count[r] = 2
        /\ Len(initial_store) = 1
        /\ Len(store) = 2
        /\ \A id \in 1..Len(store) : store[id].last_seen = 2

\* C11: a request that commits answers 200 with updated_count the number of
\* entries of batch.people, whatever the entries did to the table; a batch
\* without entries answers 0 and its commit leaves the table as it was.
C11_UpdatedCount ==
    [][\A r \in Reqs :
         (req_pc[r] = "commit" /\ req_pc'[r] = "done") =>
            /\ req_status'[r] = 200
            /\ updated_count'[r] = Len(req_batch[r].people)
            /\ req_batch[r].people = <<>> =>
                  (updated_count'[r] = 0 /\ store' = store)]_vars

\* The second of two committed requests with the same batch, two equal
\* entries for one person that the first request inserted: its entries are
\* updates to the values already stored, and it answers 2.
C11_Witness ==
    /\ commit_order = <<1, 2>>
    /\ req_batch[1] = req_batch[2]
    /\ Len(req_batch[2].people) = 2
    /\ req_batch[2].people[1] = req_batch[2].people[2]
    /\ req_timestamp[1] = req_timestamp[2]
    /\ Len(store) = Len(initial_store) + 1
    /\ updated_count[2] = 2
    /\ req_status[2] = 200

\* The entry of batch.people at which a request failed.
FailedAt(r) == IF req_pc[r] = "error" /\ req_i[r] <= Len(req_batch[r].people) THEN req_i[r] ELSE 0

\* The values that entry j of a request assigns.
EntryValues(r, j) ==
    [time_happy |-> DictGet(req_batch[r].people[j].cumulative, "happy", 0),
     time_sad |-> DictGet(req_batch[r].people[j].cumulative, "sad", 0),
     time_angry |-> DictGet(req_batch[r].people[j].cumulative, "angry", 0),
     last_seen |-> req_timestamp[r]]

\* C12 as claimed: when a request has failed at entry k, every entry before
\* k has a row in the table with the entry's values.
C12_PartialBatchCommitted ==
    \A r \in Reqs :
        FailedAt(r) > 1 =>
            \A j \in 1..(FailedAt(r) - 1) :
                \E id \in SelectIds(store, req_batch[r].device_id,
                                    req_batch[r].people[j].person_id) :
                    ColumnsOf(store[id]) = EntryValues(r, j)

\* The requests that have committed and report on the identity of a row.
CommittedOn(row) ==
    {q \in Reqs : /\ \E k \in 1..Len(commit_order) : commit_order[k] = q
                  /\ req_batch[q].device_id = row.device_id
                  /\ EntriesOf(req_batch[q], row.person_id) # {}}

\* C12 as amended: a failed request leaves nothing of its entries in the
\* table.  Every row is a row of the initial table or the row of an identity
\* that a committed request reports, and each of its columns is as in the
\* initial table or as an entry of a committed request reports it.
C12_FailedBatchRolledBack ==
    \A id \in 1..Len(store) :
        /\ id <= Len(initial_store) =>
              /\ store[id].device_id = initial_store[id].device_id
              /\ store[id].person_id = initial_store[id].person_id
        /\ id > Len(initial_store) => CommittedOn(store[id]) # {}
        /\ \A c \in Attrs :
              \/ id <= Len(initial_store) /\ store[id][c] = initial_store[id][c]
              \/ \E q \in CommittedOn(store[id]) :
                    \E j \in EntriesOf(req_batch[q], store[id].person_id) :
                        store[id][c] = EntryValues(q, j)[c]

\* A request failed at its second entry after its first entry had added a
\* row to its session, the other request has committed, and the table holds
\* no row for the identity of that first entry.
C12_Witness ==
    \E r \in Reqs :
        /\ FailedAt(r) = 2
        /\ req_status[r] = 500
        /\ Len(commit_order) = 1
        /\ SelectIds(store, req_batch[r].device_id, req_batch[r].people[1].person_id) = {}
        /\ Len(store) > Len(initial_store)

\* C13: with the batches applied one after the other, a batch with several
\* entries for one person is answered 200, and when it has committed the
\* person's identity has exactly one row, with the values of the last of
\* those entries.
C13_DuplicateInBatch ==
    \A r \in Reqs, p \in Persons :
        Cardinality(EntriesOf(req_batch[r], p)) > 1 =>
            /\ req_pc[r] # "error"
            /\ (req_pc[r] = "done" /\ commit_order[Len(commit_order)] = r) =>
                  /\ req_status[r] = 200
                  /\ Cardinality(SelectIds(store, req_batch[r].device_id, p)) = 1
                  /\ ColumnsOf(store[SetMin(SelectIds(store, req_batch[r].device_id, p))])
                        = EntryValues(r, SetMax(EntriesOf(req_batch[r], p)))

\* Two committed batches, each with two different entries for one person:
\* the first met no row of the identity, the second met the row the first
\* left, and the row holds the second entry of the second batch, which is
\* not what the first batch left.
C13_Witness ==
    \E p \in Persons, d \in Devices :
        /\ commit_order = <<1, 2>>
        /\ SelectIds(initial_store, d, p) = {}
        /\ \A r \in Reqs :
              /\ req_batch[r].device_id = d
              /\ EntriesOf(req_batch[r], p) = {1, 2}
              /\ req_batch[r].people[1].cumulative # req_batch[r].people[2].cumulative
        /\ req_batch[1].people[2].cumulative # req_batch[2].people[2].cumulative
        /\ Cardinality(SelectIds(store, d, p)) = 1
        /\ ColumnsOf(store[SetMin(SelectIds(store, d, p))]) = EntryValues(2, 2)

\* C14: a pass of a viewer's loop yields nothing and goes to sleep when the
\* slot of its device is empty, and otherwise yields exactly one chunk, around
\* the bytes the slot holds at the pass, whatever the viewer was sent before.
C14_PollTick ==
    [][\A s \in Subs :
         (sub_pc[s] = "poll" /\ sub_pc'[s] \in {"yield", "sleep"}) =>
            IF LATEST_FRAMES[sub_device[s]] = Absent
            THEN sub_out'[s] = <<>> /\ sub_pc'[s] = "sleep"
            ELSE /\ sub_out'[s] = <<Chunk(LATEST_FRAMES[sub_device[s]][1].frame)>>
                 /\ sub_pc'[s] = "yield"]_vars

\* A viewer whose last two passes yielded the same bytes, those of the one
\* publish to its device, next to a viewer whose last two passes yielded
\* nothing because its device has not published.
C14_Witness ==
    \E s, t \in Subs :
        /\ sub_pc[s] = "yield"
        /\ pub_count[sub_device[s]] = 1
        /\ sub_log[s] = << <<Chunk(last_pub[sub_device[s]][1])>>,
                           <<Chunk(last_pub[sub_device[s]][1])>> >>
        /\ sub_pc[t] = "sleep"
        /\ LATEST_FRAMES[sub_device[t]] = Absent
        /\ sub_log[t] = << <<>>, <<>> >>

\* C15: under the fairness of the event loop, a viewer that has connected
\* and never closes its connection has its loop make passes for ever,
\* whether its device has published or not.
C15_NeverTerminates ==
    \A s \in Subs :
        \/ [](sub_pc[s] = "closed")
        \/ <>sub_gone[s]
        \/ []<><<mjpeg_poll(s)>>_vars

\* Two connected viewers after two passes each: one of a device that has
\* published, one of a device that has not.
C15_Witness ==
    \E s, t \in Subs :
        /\ sub_pc[s] = "poll" /\ sub_pc[t] = "poll"
        /\ ~sub_gone[s] /\ ~sub_gone[t]
        /\ Len(sub_log[s]) = 2 /\ sub_log[s][2] # <<>>
        /\ pub_count[sub_device[t]] = 0
        /\ sub_log[t] = << <<>>, <<>> >>

\* C16: in every reachable state, wherever the viewers are in their loops,
\* a publish of decodable bytes to any device can take its step, and the
\* step answers 200 and leaves the slot of the device holding those bytes.
C16_PublishNeverBlocked ==
    \A d \in Devices, b \in FramePayloads, t \in FrameTimestamps :
        b64decode(b).ok =>
            ENABLED ( /\ upload_frame(d, b, t)
                      /\ upload_status' = 200
                      /\ LATEST_FRAMES'[d] # Absent
                      /\ LATEST_FRAMES'[d][1].frame = b64decode(b).bytes )

\* A viewer whose first pass found the slot empty and whose second pass
\* yielded the first publish still holds that chunk unsent, while a second
\* publish has replaced the slot with other bytes.
C16_Witness ==
    \E s \in Subs :
        /\ sub_pc[s] = "yield"
        /\ Len(sub_log[s]) = 2 /\ sub_log[s][1] = <<>> /\ sub_log[s][2] = sub_out[s]
        /\ sub_seen[s] = 1
        /\ pub_count[sub_device[s]] = 2
        /\ sub_out[s] # <<Chunk(LATEST_FRAMES[sub_device[s]][1].frame)>>

\* C17: under the fairness of the event loop, once a viewer has closed its
\* connection its generator is cancelled and stays so: from then on it makes
\* no pass and yields no chunk.
C17_StopsAfterDisconnect ==
    \A s \in Subs : [](sub_gone[s] => <>[](sub_pc[s] = "cancelled"))

\* A viewer of a device that never published and a viewer of a device that
\* did, both cancelled after they had made two passes and closed their
\* connections.
C17_Witness ==
    \E s, t \in Subs :
        /\ sub_gone[s] /\ sub_pc[s] = "cancelled"
        /\ sub_log[s] = << <<>>, <<>> >>
        /\ sub_gone[t] /\ sub_pc[t] = "cancelled"
        /\ Len(sub_log[t]) = 2 /\ sub_log[t][2] # <<>>

\* The keys of a cumulative mapping, and the column of an emotion.
KeysOf(cumulative) == {cumulative[i].key : i \in 1..Len(cumulative)}

ColumnOf(emotion) ==
    CASE emotion = "happy" -> "time_happy"
      [] emotion = "sad" -> "time_sad"
      [] emotion = "angry" -> "time_angry"

\* C18: with the batches applied one after the other, the row of a person
\* of the batch committed last holds, for each of happy, sad and angry, the
\* value the person's last entry gives for it and 0 when the entry omits
\* it, whatever the row held before and whatever other keys the entry has.
C18_OmittedKeysStoreZero ==
    \A r \in Reqs, p \in Persons :
        ( /\ req_pc[r] = "done" /\ commit_order[Len(commit_order)] = r
          /\ EntriesOf(req_batch[r], p) # {} ) =>
            LET cumulative ==
                    req_batch[r].people[SetMax(EntriesOf(req_batch[r], p))].cumulative
                ids == SelectIds(store, req_batch[r].device_id, p)
            IN  /\ ids # {}
                /\ \A id \in ids, emotion \in {"happy", "sad", "angry"} :
                      IF emotion \in KeysOf(cumulative)
                      THEN \E i \in 1..Len(cumulative) :
                              /\ cumulative[i].key = emotion
                              /\ store[id][ColumnOf(emotion)] = cumulative[i].value
                      ELSE store[id][ColumnOf(emotion)] = 0

\* A row that held a sad time of 1 when the process started, after one
\* committed batch whose entry for the person has happy, angry and a key
\* that is no emotion of the table, but not sad: the sad time is 0.
C18_Witness ==
    \E r \in Reqs, id \in 1..Len(initial_store) :
        /\ commit_order = <<r>>
        /\ initial_store[id].time_sad = 1
        /\ req_batch[r].device_id = store[id].device_id
        /\ Len(req_batch[r].people) = 1
        /\ req_batch[r].people[1].person_id = store[id].person_id
        /\ KeysOf(req_batch[r].people[1].cumulative) = {"happy", "angry", "surprised"}
        /\ TimesOf(store[id]) = [time_happy |-> 1, time_sad |-> 0, time_angry |-> 2]

\* C19: a slot that holds a frame never becomes empty; a step that is a
\* publish to a device leaves the slot of every other device as it was; and
\* a pass of a viewer's loop leaves every slot as it was.
C19_OverwriteOnly ==
    [][ /\ \A e \in Devices :
              /\ LATEST_FRAMES[e] # Absent => LATEST_FRAMES'[e] # Absent
              /\ LATEST_FRAMES'[e] # LATEST_FRAMES[e] =>
                    \A d \in Devices \ {e}, b \in FramePayloads, t \in FrameTimestamps :
                        ~upload_frame(d, b, t)
        /\ \A s \in Subs :
              (sub_pc[s] = "poll" /\ sub_pc'[s] # "poll") => LATEST_FRAMES' = LATEST_FRAMES
      ]_vars

\* Both devices have published, the first of them twice, and a viewer of
\* each has made a pass since: both slots hold their device's last frame.
C19_Witness ==
    /\ \E d, e \in Devices :
          /\ pub_count[d] = 2 /\ pub_count[e] = 1
          /\ LATEST_FRAMES[d][1].frame # LATEST_FRAMES[e][1].frame
    /\ \A d \in Devices :
          /\ LATEST_FRAMES[d] # Absent
          /\ LATEST_FRAMES[d][1].frame = last_pub[d][1]
          /\ \E s \in Subs : /\ sub_device[s] = d
                              /\ sub_pc[s] = "yield"
                              /\ sub_seen[s] = pub_count[d]

\* A step is the commit of a batch that reports on the identity of a row.
CommitsOn(row) ==
    \E r \in Reqs :
        /\ req_pc[r] = "commit" /\ req_pc'[r] = "done"
        /\ req_batch[r].device_id = row.device_id
        /\ EntriesOf(req_batch[r], row.person_id) # {}

\* C20: no step removes a row or changes the identity of a row; a step
\* changes a row or adds one only as the commit of a batch of the row's
\* device that lists the row's person; and a summary leaves the table as
\* it was.
C20_FrameEffect ==
    [][ /\ Len(store') >= Len(store)
        /\ \A id \in 1..Len(store) :
              /\ store'[id].device_id = store[id].device_id
              /\ store'[id].person_id = store[id].person_id
              /\ store'[id] # store[id] => CommitsOn(store[id])
        /\ \A id \in (Len(store) + 1)..Len(store') : CommitsOn(store'[id])
        /\ summary' # summary => store' = store
      ]_vars

\* Two batches of jetson_1 have committed, one adding a row for person 2
\* and one changing the row of person 1, a summary has been served, and the
\* row of jetson_2 is as it was when the process started.
C20_Witness ==
    /\ Len(commit_order) = 2
    /\ summary # Absent
    /\ Len(initial_store) = 2 /\ Len(store) = 3
    /\ initial_store[2].device_id = "jetson_2" /\ store[2] = initial_store[2]
    /\ store[1] # initial_store[1]
    /\ store[3].device_id = "jetson_1" /\ store[3].person_id = "2"
    /\ \E r \in Reqs : /\ req_batch[r].device_id = "jetson_1"
                        /\ EntriesOf(req_batch[r], "2") = {}
                        /\ EntriesOf(req_batch[r], "1") # {}
                        /\ commit_order[2] = r
                        /\ ColumnsOf(store[1]) = EntryValues(r, Len(req_batch[r].people))
====
